---- MODULE Spec2Model ----
(***************************************************************************)
(* Yakima dashboard (src/app.js): the refresh cycle and the data           *)
(* reconciliation layer, as a state machine.                               *)
(*                                                                         *)
(* The browser runs one event loop, so every handler and every promise     *)
(* continuation is one atomic action.  What interleaves are the events:    *)
(* clicks, interval ticks, and the arrival (or failure, or timeout) of     *)
(* each outstanding network call.                                          *)
(***************************************************************************)
EXTENDS Integers, Sequences, FiniteSets, TLC

\* Number of refresh cycles a behaviour may start (caps cycleNo).
MaxCycles == 2

\* The longest raw provider input (entries of a series, rows, matches) drawn
\* for the parsers.
MaxRaw == 2

\* The longest sample list drawn for the helpers.
MaxLen == 5

\* The largest maximum count drawn for downsample.
MaxCount == 3

\* The longest series drawn for getTrend.
MaxTrend == 3

\* The longest discharge and temperature series drawn for the alignment.
MaxAlign == 2

\* The longest ts array drawn for parseWindyResponse.
MaxTs == 3

---------------------------------------------------------------------------
\* CONFIG

\* A provider identifier the station does not have.
null == "null"

Has(id) == id # null

\* One station per distinct set of provider identifiers of the source's list:
\* umtanum (USGS + USBR + forecast), horlick (USBR + NWRFC + forecast) and
\* easton (USBR + forecast; cle_res, cle_elum and teanaway have the same
\* identifiers set as easton and behave as it does).
STATIONS ==
  [ umtanum |-> [usgsId |-> "12484500", usbrId |-> "UMTW", nwrfcId |-> null,    nwsLid |-> "UMTW1"],
    horlick |-> [usgsId |-> null,       usbrId |-> "YRWW", nwrfcId |-> "HLKW1", nwsLid |-> "HLKW1"],
    easton  |-> [usgsId |-> null,       usbrId |-> "EASW", nwrfcId |-> null,    nwsLid |-> "EASW1"] ]

StationIds == DOMAIN STATIONS

\* The three locations are configured alike; one stands for them.
WEATHER_LOCATIONS == {"Cle Elum"}

AlertJobId == "alerts"

JobIds == StationIds \cup WEATHER_LOCATIONS \cup {AlertJobId}

\* The jobs in the order refresh() creates them: the stations in the order of
\* the list, then the weather locations, then the alerts.
JobOrder == << "easton", "horlick", "umtanum", "Cle Elum", AlertJobId >>

\* state.currentDays at load.
InitialDays == 7

\* The lookbacks the range buttons offer (data-days).
RangeDays == {7, 30}

---------------------------------------------------------------------------
\* DATA

\* A sample is <<provider, lookback days of the request that returned it>>.
\* A series is a sequence of samples.
SeriesOf(prov, d) == { <<>>, << <<prov, d>> >> }

\* What parseUSGSJSON can return: each of the three series empty or not.
USGSBodies(d) ==
  [ discharge : SeriesOf("USGS", d), waterTemp : SeriesOf("USGS", d),
    gageHeight : SeriesOf("USGS", d) ]

\* What parseUSBRCSV can return: gageHeight is never filled.
USBRBodies(d) ==
  [ discharge : SeriesOf("USBR", d), waterTemp : SeriesOf("USBR", d),
    gageHeight : {<<>>} ]

\* What parseNWRFCTempHTML can return.
NWRFCBodies(d) == SeriesOf("NWRFC", d)

\* What fetchNWSForecast's mapping can return in cycle n (the request takes
\* no lookback; its samples are marked with the cycle that fetched them).
NWSBodies(n) == SeriesOf("NWS", n)

\* No raw provider input has been handed to a parser.
NoInput == [kind |-> "none"]

EmptySeriesSet == [discharge |-> <<>>, waterTemp |-> <<>>, gageHeight |-> <<>>]

\* The local variables of one job of a cycle.  result is <<>> for null and
\* <<d>> for an accepted provider result d.  log is the history of the calls
\* the job has made so far while it runs, in order: the provider and what the
\* call returned or that it threw; it ends with the job.
BlankJob ==
  [ pc |-> "idle", phase |-> "-", result |-> <<>>, source |-> null,
    forecast |-> <<>>, log |-> <<>>, err |-> <<>> ]

Settled(j) == j.pc \in {"fulfilled", "rejected"}

InCall(j) == j.phase \in {"headers", "body"}

\* An endpoint is <<job, provider>>: the service a job's request goes to.
Providers == {"usgs", "usbr", "nwrfc", "nws", "windy", "alerts"}

\* The network of a behaviour: the endpoints in `online` are reachable and
\* answer in any way and at any time (or never); every other endpoint is
\* unreachable, and a request to it fails at once with a network error,
\* before any other event.  Reachable are either the endpoints of one
\* station (for a station with a USGS identifier its two discharge
\* providers), or those of the weather and alert jobs.
Scenarios ==
  { {s} \X (IF Has(STATIONS[s].usgsId) THEN {"usgs", "usbr"} ELSE Providers) :
      s \in StationIds }
    \cup { (WEATHER_LOCATIONS \cup {AlertJobId}) \X Providers }

\* Only the USBR hydromet service is reachable, for every station.
WideScenario == StationIds \X {"usbr"}

---------------------------------------------------------------------------
VARIABLES
  isRefreshing,   \* state.isRefreshing
  currentDays,    \* state.currentDays
  lastRefresh,    \* state.lastRefresh: 0 for null, else the cycle that set it
  stationData,    \* state.stationData: <<>> for a missing key, else <<reading>>
  weatherData,    \* state.weatherData: <<>> for a missing key, else <<reading>>
  statusLevel,    \* class of #status-dot
  spinning,       \* #refresh-btn has class 'spinning'
  stationCard,    \* what each station card shows: <<>> skeleton, else <<reading>>
  weatherCard,    \* what each weather card shows
  hidden,         \* document.visibilityState = 'hidden'
  domLoaded,      \* the DOMContentLoaded handler has run
  days,           \* refresh()'s local const days
  refreshPc,      \* "idle", or "await" at the Promise.allSettled of a cycle
  jobs,           \* the station, weather and alert jobs of the current cycle
  timers,         \* pending setTimeout timers: <<job, provider>>
  online,         \* the endpoints that are reachable in this behaviour
  cycleNo,        \* cycles started so far
  inFlight,       \* refresh() calls past the guard that have not finished
  raw,            \* the argument handed to a parser or a helper
  parsed          \* <<>>, else <<what it returned for raw>>

vars ==
  << isRefreshing, currentDays, lastRefresh, stationData, weatherData,
     statusLevel, spinning, stationCard, weatherCard, hidden, domLoaded,
     days, refreshPc, jobs, timers, online, cycleNo, inFlight, raw, parsed >>

InitIn(scenarios) ==
  /\ isRefreshing = FALSE
  /\ currentDays = InitialDays
  /\ lastRefresh = 0
  /\ stationData = [s \in StationIds |-> <<>>]
  /\ weatherData = [l \in WEATHER_LOCATIONS |-> <<>>]
  /\ statusLevel = "loading"
  /\ spinning = FALSE
  /\ stationCard = [s \in StationIds |-> <<>>]
  /\ weatherCard = [l \in WEATHER_LOCATIONS |-> [shown |-> "skeleton", data |-> <<>>]]
  /\ hidden \in BOOLEAN
  /\ domLoaded = FALSE
  /\ days = InitialDays
  /\ refreshPc = "idle"
  /\ jobs = [id \in JobIds |-> BlankJob]
  /\ timers = {}
  /\ online \in scenarios
  /\ cycleNo = 0
  /\ inFlight = 0

Init == InitIn(Scenarios) /\ raw = NoInput /\ parsed = <<>>

InitWide == InitIn({WideScenario}) /\ raw = NoInput /\ parsed = <<>>


cycleCtl == << isRefreshing, lastRefresh, statusLevel, spinning, days, refreshPc, cycleNo, inFlight >>

envVars == << currentDays, hidden, domLoaded, online, raw, parsed >>

dataVars == << stationData, weatherData, stationCard, weatherCard >>

---------------------------------------------------------------------------
\* FETCH ORCHESTRATORS: timers

\* The calls that arm a timeout: fetchUSGS, fetchUSBR, fetchNWRFCTemp,
\* fetchWindy and fetchNWSForecast each do `setTimeout(() => ctrl.abort(), ms)`;
\* fetchNWSAlerts creates no AbortController and no timer.
TimedProviders == {"usgs", "usbr", "nwrfc", "windy", "nws"}

ArmsTimer(prov) == prov \in TimedProviders

\* const timer = setTimeout(...)
ArmTimer(ts, id, prov) == IF ArmsTimer(prov) THEN ts \cup {<<id, prov>>} ELSE ts

\* clearTimeout(timer) right after `await fetch(...)` resolves, before the
\* body is read.
ClearOnResponse(ts, id, prov) == ts \ {<<id, prov>>}

\* Defect: the finally block does not clear the timer.
ClearTimer_Leak(ts, id, prov) == ts

\* finally { clearTimeout(timer); }
ClearTimer(ts, id, prov) == ts \ {<<id, prov>>}

---------------------------------------------------------------------------
\* STATION RECONCILIATION (the async callback of STATIONS.map)

\* An outcome of an orchestrator call: it threw, or it returned data.
\* The call threw e.
Failed(e) == [ok |-> FALSE, data |-> <<>>, err |-> << e >>]

Ok(d) == [ok |-> TRUE, data |-> d, err |-> <<>>]

\* What an orchestrator's error message names the provider as.
ProviderLabel ==
  [ usgs |-> "USGS", usbr |-> "USBR", nwrfc |-> "NWRFC", nws |-> "NWS forecast",
    windy |-> "Windy API" ]

\* The identifier the message of a call by job id to prov carries: the
\* siteId / stationId / lid argument; fetchWindy's message carries none.
MessageId(id, prov) ==
  CASE prov = "usgs"  -> STATIONS[id].usgsId
    [] prov = "usbr"  -> STATIONS[id].usbrId
    [] prov = "nwrfc" -> STATIONS[id].nwrfcId
    [] prov = "nws"   -> STATIONS[id].nwsLid
    [] prov = "windy" -> null

\* throw new Error(`USGS ${siteId}: HTTP ${res.status}`) and its likes.
HttpError(id, prov, status) ==
  [ name |-> "Error", provider |-> ProviderLabel[prov], id |-> MessageId(id, prov),
    status |-> status ]

\* What fetch rejects with when ctrl.abort() ends the request: the platform's
\* AbortError, whose message names no provider, identifier or status.
AbortError == [ name |-> "AbortError", provider |-> null, id |-> null, status |-> null ]

\* What fetch rejects with on a network failure.
NetworkError == [ name |-> "TypeError", provider |-> null, id |-> null, status |-> null ]

\* What res.json() / res.text() rejects with.
BodyError == [ name |-> "SyntaxError", provider |-> null, id |-> null, status |-> null ]

\* The non-success statuses drawn.
ErrorStatuses == {"503"}

\* Calling an orchestrator: the request goes out and the job awaits it.
Issue(j, prov) == [j EXCEPT !.pc = prov, !.phase = "headers"]

\* The call the job awaits has settled with outcome out.
Logged(j, out) ==
  [j EXCEPT !.log = Append(@, [prov |-> j.pc, out |-> [ok |-> out.ok, data |-> out.data]]),
            !.err = out.err]

\* The job has reached `state.stationData[station.id] = ...`.
FinishJob(j) == [j EXCEPT !.pc = "store", !.phase = "-"]

\* if (station.nwsLid) { forecast = await fetchNWSForecast(...) }
Step4(s, j) ==
  IF Has(STATIONS[s].nwsLid) THEN Issue(j, "nws") ELSE FinishJob(j)

\* Defect: the supplement is requested without testing that the accepted
\* water-temperature series is empty.
Step3_NoEmptyTest(s, j) ==
  IF j.result # <<>> /\ Has(STATIONS[s].nwrfcId)
  THEN Issue(j, "nwrfc")
  ELSE Step4(s, j)

\* if (result && station.nwrfcId && result.waterTemp.length === 0)
Step3(s, j) ==
  IF j.result # <<>> /\ Has(STATIONS[s].nwrfcId) /\ j.result[1].waterTemp = <<>>
  THEN Issue(j, "nwrfc")
  ELSE Step4(s, j)

\* Defect: a primary call that gave no result is tried a second time before
\* the job falls back to the secondary provider.
Step2_RetryPrimary(s, j) ==
  IF j.result = <<>> /\ Has(STATIONS[s].usgsId) /\ Len(j.log) = 1
  THEN Issue(j, "usgs")
  ELSE IF j.result = <<>> /\ Has(STATIONS[s].usbrId)
       THEN Issue(j, "usbr")
       ELSE Step3(s, j)

\* if (!result && station.usbrId)
Step2(s, j) ==
  IF j.result = <<>> /\ Has(STATIONS[s].usbrId)
  THEN Issue(j, "usbr")
  ELSE Step3(s, j)

\* if (station.usgsId)
Step1(s, j) ==
  IF Has(STATIONS[s].usgsId) THEN Issue(j, "usgs") ELSE Step2(s, j)

\* Defect: the primary result is accepted without testing its discharge.
AcceptPrimary_AnyResult(j, out) ==
  IF out.ok
  THEN [j EXCEPT !.result = <<out.data>>, !.source = "USGS"]
  ELSE j

\* if (d.discharge.length > 0) { result = d; source = 'USGS'; }
AcceptPrimary(j, out) ==
  IF out.ok /\ Len(out.data.discharge) > 0
  THEN [j EXCEPT !.result = <<out.data>>, !.source = "USGS"]
  ELSE j

\* Defect: the secondary result is accepted without setting the source.
AcceptSecondary_NoSource(j, out) ==
  IF out.ok /\ Len(out.data.discharge) > 0
  THEN [j EXCEPT !.result = <<out.data>>]
  ELSE j

\* Defect: the secondary result is accepted under the primary's name.
AcceptSecondary_PrimaryTag(j, out) ==
  IF out.ok /\ Len(out.data.discharge) > 0
  THEN [j EXCEPT !.result = <<out.data>>, !.source = "USGS"]
  ELSE j

\* if (d && d.discharge.length > 0) { result = d; source = 'USBR'; }
AcceptSecondary(j, out) ==
  IF out.ok /\ Len(out.data.discharge) > 0
  THEN [j EXCEPT !.result = <<out.data>>, !.source = "USBR"]
  ELSE j

\* if (twData.length > 0) result.waterTemp = twData;
MergeTemp(j, out) ==
  IF out.ok /\ Len(out.data) > 0
  THEN [j EXCEPT !.result = << [j.result[1] EXCEPT !.waterTemp = out.data] >>]
  ELSE j

\* Defect: the forecast call shares the try block of the observed data, so
\* its failure discards the accepted result.
AttachForecast_SharedTry(j, out) ==
  IF out.ok
  THEN [j EXCEPT !.forecast = out.data]
  ELSE [j EXCEPT !.result = <<>>, !.source = null]

\* forecast = await fetchNWSForecast(...)   (stays [] when the call throws)
AttachForecast(j, out) ==
  [j EXCEPT !.forecast = IF out.ok THEN out.data ELSE <<>>]

\* The continuation of the station job after its current call settled.
AfterCall(s, j, out) ==
  CASE j.pc = "usgs"  -> Step2(s, AcceptPrimary(Logged(j, out), out))
    [] j.pc = "usbr"  -> Step3(s, AcceptSecondary(Logged(j, out), out))
    [] j.pc = "nwrfc" -> Step4(s, MergeTemp(Logged(j, out), out))
    [] j.pc = "nws"   -> FinishJob(AttachForecast(Logged(j, out), out))

\* { ...(result ?? {discharge: [], waterTemp: [], gageHeight: []}), forecast, source }
Reading(j) ==
  LET r == IF j.result = <<>> THEN EmptySeriesSet ELSE j.result[1]
  IN  [ discharge |-> r.discharge, waterTemp |-> r.waterTemp,
        gageHeight |-> r.gageHeight, forecast |-> j.forecast,
        source |-> j.source ]

\* What the awaited body can parse to, for the call the job is in.
BodiesFor(prov, d, n) ==
  CASE prov = "usgs"   -> USGSBodies(d)
    [] prov = "usbr"   -> USBRBodies(d)
    [] prov = "nwrfc"  -> NWRFCBodies(d)
    [] prov = "nws"    -> NWSBodies(n)
    [] prov = "windy"  -> { [fetched |-> n] }
    [] prov = "alerts" -> { <<>> }

---------------------------------------------------------------------------
\* JOB COMPLETION: what runs when the call a job awaits has settled

\* Defect: the new reading is merged into the previous one, an empty series
\* or a null source keeping the previous value.
Store_Merge(sd, s, r) ==
  IF sd[s] = <<>>
  THEN [sd EXCEPT ![s] = << r >>]
  ELSE LET old == sd[s][1]
       IN  [sd EXCEPT ![s] =
              << [ discharge  |-> IF r.discharge = <<>> THEN old.discharge ELSE r.discharge,
                   waterTemp  |-> IF r.waterTemp = <<>> THEN old.waterTemp ELSE r.waterTemp,
                   gageHeight |-> IF r.gageHeight = <<>> THEN old.gageHeight ELSE r.gageHeight,
                   forecast   |-> IF r.forecast = <<>> THEN old.forecast ELSE r.forecast,
                   source     |-> IF r.source = null THEN old.source ELSE r.source ] >>]

\* state.stationData[station.id] = { ... }: the key gets a new object.
Store(sd, s, r) == [sd EXCEPT ![s] = << r >>]

\* Defect: the no-data branch of renderStationCard can throw too.
RenderCanThrow_NoDataToo(r) == TRUE

\* renderStationCard(station, data) can throw only past its no-data branch
\* (`if (!latestQ) { ...; return; }`), which writes fixed markup.
RenderCanThrow(r) == r.discharge # <<>>

\* Defect: the stations are processed one after the other (a loop with
\* await in place of STATIONS.map): a job stores and renders only once the
\* jobs of the stations before it in the list have ended.
StationComplete_AfterSiblings(s, ts, out, mayThrow) ==
  LET j2  == AfterCall(s, jobs[s], out)
      ts1 == ClearTimer(ts, s, jobs[s].pc)
      pos == CHOOSE i \in DOMAIN JobOrder : JobOrder[i] = s
  IN  /\ UNCHANGED << weatherData, weatherCard >>
      /\ IF j2.pc = "store"
         THEN /\ \A k \in 1..(pos - 1) :
                   JobOrder[k] \in StationIds => Settled(jobs[JobOrder[k]])
              /\ stationData' = Store(stationData, s, Reading(j2))
              /\ timers' = ts1
              /\ stationCard' = [stationCard EXCEPT ![s] = << Reading(j2) >>]
              /\ jobs' = [jobs EXCEPT ![s] = [j2 EXCEPT !.pc = "fulfilled", !.log = <<>>, !.err = <<>>]]
         ELSE /\ jobs' = [jobs EXCEPT ![s] = j2]
              /\ timers' = ArmTimer(ts1, s, j2.pc)
              /\ UNCHANGED << stationData, stationCard >>

\* Station job: the rest of the callback up to its next await, or up to
\* the store and renderStationCard.  renderStationCard may throw (when
\* mayThrow), which rejects the job's promise after the reading was stored.
StationComplete(s, ts, out, mayThrow) ==
  LET j2  == AfterCall(s, jobs[s], out)
      ts1 == ClearTimer(ts, s, jobs[s].pc)
  IN  /\ UNCHANGED << weatherData, weatherCard >>
      /\ IF j2.pc = "store"
         THEN /\ stationData' = Store(stationData, s, Reading(j2))
              /\ timers' = ts1
              /\ \E renderThrows \in {FALSE, mayThrow /\ RenderCanThrow(Reading(j2))} :
                   /\ stationCard' = IF renderThrows THEN stationCard
                                     ELSE [stationCard EXCEPT ![s] = << Reading(j2) >>]
                   /\ jobs' = [jobs EXCEPT ![s] =
                                [j2 EXCEPT !.pc = IF renderThrows THEN "rejected"
                                                  ELSE "fulfilled",
                                           !.log = <<>>, !.err = <<>>]]
         ELSE /\ jobs' = [jobs EXCEPT ![s] = j2]
              /\ timers' = ArmTimer(ts1, s, j2.pc)
              /\ UNCHANGED << stationData, stationCard >>

\* Where the render calls of a settling weather job throw: nowhere, in
\* renderWeatherCard(loc, d) of the try path (the catch then renders "no
\* data"), or in the renderWeatherCard(loc, null) of the catch path, which
\* rejects the job's promise.
ThrowChoices == {"none", "try", "catch"}

\* Weather job: try { d = await fetchWindy; weatherData[name] = d;
\* renderWeatherCard(loc, d) } catch { renderWeatherCard(loc, null) }.
WeatherComplete(l, ts, out, mayThrow) ==
  LET stored == IF out.ok THEN [weatherData EXCEPT ![l] = << out.data >>] ELSE weatherData
      noData == [shown |-> "nodata", data |-> <<>>]
  IN  /\ weatherData' = stored
      /\ timers' = ClearTimer(ts, l, jobs[l].pc)
      /\ UNCHANGED << stationData, stationCard >>
      /\ \E thr \in (IF ~mayThrow THEN {"none"}
                    ELSE IF out.ok THEN ThrowChoices ELSE {"none", "catch"}) :
           /\ weatherCard' =
                CASE thr = "catch" -> weatherCard
                  [] thr = "try"   -> [weatherCard EXCEPT ![l] = noData]
                  [] thr = "none"  ->
                       [weatherCard EXCEPT ![l] =
                          IF out.ok THEN [shown |-> "data", data |-> << out.data >>]
                          ELSE noData]
           /\ jobs' = [jobs EXCEPT ![l] =
                        [@ EXCEPT !.pc = IF thr = "catch" THEN "rejected" ELSE "fulfilled",
                                  !.phase = "-", !.err = out.err]]

\* Alert job: fetchNWSAlerts() returns a list on every path (its own catch
\* returns []), and .then(renderAlerts).catch(() => {}) swallows a render error.
AlertComplete(ts, out) ==
  /\ jobs' = [jobs EXCEPT ![AlertJobId] = [@ EXCEPT !.pc = "fulfilled", !.phase = "-"]]
  /\ timers' = ts
  /\ UNCHANGED dataVars

\* mayThrow: the render calls of the job may throw.
Complete(id, ts, out, mayThrow) ==
  CASE id \in StationIds        -> StationComplete(id, ts, out, mayThrow)
    [] id \in WEATHER_LOCATIONS -> WeatherComplete(id, ts, out, mayThrow)
    [] id = AlertJobId          -> AlertComplete(ts, out)

---------------------------------------------------------------------------
\* NETWORK EVENTS of an outstanding call

\* The jobs with a request to an unreachable endpoint outstanding.
UrgentJobs ==
  { id \in JobIds : jobs[id].phase = "headers" /\ << id, jobs[id].pc >> \notin online }

\* Such a request is outstanding: its failure is the next event.
Urgent == UrgentJobs # {}

\* `await fetch(...)` rejects at once: the endpoint is unreachable.  These
\* failures arrive in the order the jobs were created.  (The render calls of
\* a job that ends here do not throw.)
Unreachable(id) ==
  /\ id \in UrgentJobs
  /\ \E i \in DOMAIN JobOrder :
       /\ JobOrder[i] = id
       /\ \A k \in 1..(i - 1) : JobOrder[k] \notin UrgentJobs
  /\ UNCHANGED << cycleCtl, envVars >>
  /\ Complete(id, timers, Failed(NetworkError), FALSE)

\* `await fetch(...)` resolves with a response: the timer is cleared; a
\* non-ok status throws (fetchNWSAlerts returns [] instead), an ok status goes on to
\* `await res.json()` / `await res.text()`.
FetchResolves(id, ok) ==
  /\ jobs[id].phase = "headers"
  /\ ~Urgent
  /\ UNCHANGED << cycleCtl, envVars >>
  /\ LET ts1 == ClearOnResponse(timers, id, jobs[id].pc)
     IN  IF ok
         THEN /\ jobs' = [jobs EXCEPT ![id].phase = "body"]
              /\ timers' = ts1
              /\ UNCHANGED dataVars
         ELSE IF jobs[id].pc = "alerts"
         THEN Complete(id, ts1, Ok(<<>>), TRUE)
         ELSE \E status \in ErrorStatuses :
                Complete(id, ts1, Failed(HttpError(id, jobs[id].pc, status)), TRUE)

\* `await fetch(...)` rejects: a network error.
FetchRejects(id) ==
  /\ jobs[id].phase = "headers"
  /\ ~Urgent
  /\ UNCHANGED << cycleCtl, envVars >>
  /\ Complete(id, timers, Failed(NetworkError), TRUE)

\* A pending timer fires: ctrl.abort().  If the call that armed it is still
\* outstanding its fetch (or body read) rejects with an AbortError.
TimerFires(id, prov) ==
  /\ << id, prov >> \in timers
  /\ ~Urgent
  /\ UNCHANGED << cycleCtl, envVars >>
  /\ IF jobs[id].pc = prov /\ InCall(jobs[id])
     THEN Complete(id, timers \ {<< id, prov >>}, Failed(AbortError), TRUE)
     ELSE /\ timers' = timers \ {<< id, prov >>}
          /\ UNCHANGED << jobs, dataVars >>

\* The body arrives and parses to data.
BodyResolves(id) ==
  /\ jobs[id].phase = "body"
  /\ ~Urgent
  /\ UNCHANGED << cycleCtl, envVars >>
  /\ \E data \in BodiesFor(jobs[id].pc, days, cycleNo) :
       Complete(id, timers, Ok(data), TRUE)

\* Reading or parsing the body fails.
BodyRejects(id) ==
  /\ jobs[id].phase = "body"
  /\ ~Urgent
  /\ UNCHANGED << cycleCtl, envVars >>
  /\ Complete(id, timers, Failed(BodyError), TRUE)

---------------------------------------------------------------------------
\* MAIN REFRESH

\* Defect: the cycle does not raise the flag.
FlagDuringCycle_NotRaised == FALSE

\* state.isRefreshing = true;   (the value the flag holds during a cycle)
FlagDuringCycle == TRUE

\* Object.values(state.stationData).filter(d => d.discharge.length > 0).length
Loaded(sd) ==
  Cardinality({ s \in StationIds : sd[s] # <<>> /\ Len(sd[s][1].discharge) > 0 })

\* STATIONS.length
Total == Cardinality(StationIds)

\* Defect: the end of the cycle uses the age ticker's two-level rule.
HealthLevel_TwoLevels(loaded, total) == IF loaded < total THEN "warn" ELSE "ok"

\* loaded === 0 ? 'error' : loaded < total ? 'warn' : 'ok'
HealthLevel(loaded, total) ==
  IF loaded = 0 THEN "error" ELSE IF loaded < total THEN "warn" ELSE "ok"

\* The age ticker's level: loaded < STATIONS.length ? 'warn' : 'ok'
AgeLevel(loaded, total) == IF loaded < total THEN "warn" ELSE "ok"

\* Defect: Promise.all in place of Promise.allSettled: the join ends as soon
\* as one job is rejected.
PromiseAll(js) ==
  \/ \E id \in JobIds : js[id].pc = "rejected"
  \/ \A id \in JobIds : js[id].pc = "fulfilled"

\* await Promise.allSettled([...stationJobs, ...weatherJobs, alertJob])
PromiseAllSettled(js) == \A id \in JobIds : Settled(js[id])

\* refresh() from `state.isRefreshing = true` to the await of the join: the
\* status goes to 'loading', days is captured, and every job runs up to its
\* first await, which sends its first request.  A station without any
\* identifier would run to its store and render at once.  cards0 is what the
\* station cards show when refresh() is entered.
StartCycle(cards0) ==
  LET j0 == [ id \in JobIds |->
                IF id \in StationIds THEN Step1(id, BlankJob)
                ELSE IF id \in WEATHER_LOCATIONS THEN Issue(BlankJob, "windy")
                ELSE Issue(BlankJob, "alerts") ]
      sync == { s \in StationIds : j0[s].pc = "store" }
  IN  /\ isRefreshing' = FlagDuringCycle
      /\ spinning' = TRUE
      /\ statusLevel' = "loading"
      /\ days' = currentDays'
      /\ refreshPc' = "await"
      /\ cycleNo' = cycleNo + 1
      /\ inFlight' = inFlight + 1
      /\ UNCHANGED << lastRefresh, weatherData, weatherCard >>
      /\ \E thrown \in SUBSET { s \in sync : RenderCanThrow(Reading(j0[s])) } :
           /\ jobs' = [ id \in JobIds |->
                          IF id \in sync
                          THEN [j0[id] EXCEPT !.pc = IF id \in thrown THEN "rejected"
                                                     ELSE "fulfilled",
                                              !.log = <<>>]
                          ELSE j0[id] ]
           /\ stationData' = [ s \in StationIds |->
                                 IF s \in sync THEN << Reading(j0[s]) >> ELSE stationData[s] ]
           /\ stationCard' = [ s \in StationIds |->
                                 IF s \in sync \ thrown THEN << Reading(j0[s]) >>
                                 ELSE cards0[s] ]
      /\ timers' = timers \cup
                     { << id, j0[id].pc >> :
                         id \in { i \in JobIds : InCall(j0[i]) /\ ArmsTimer(j0[i].pc) } }

\* async function refresh(): `if (state.isRefreshing) return;` then the cycle.
refresh(cards0) ==
  IF isRefreshing
  THEN /\ UNCHANGED << cycleCtl, jobs, timers, stationData, weatherData, weatherCard >>
       /\ stationCard' = cards0
  ELSE StartCycle(cards0)

\* updateMapMarkers() formats the latest discharge (and water temperature)
\* of the stored readings into the popups; for a reading without discharge
\* makePopupHTML returns fixed markup.
MarkersCanThrow(sd) ==
  \E s \in StationIds : sd[s] # <<>> /\ sd[s][1].discharge # <<>>

\* The rest of refresh() once the join resolves.  markersThrow: the call of
\* updateMapMarkers() throws, the unexpected batch-level error of the catch.
Join(markersThrow) ==
  /\ refreshPc = "await"
  /\ PromiseAllSettled(jobs)
  /\ markersThrow => MarkersCanThrow(stationData)
  /\ IF markersThrow
     THEN /\ statusLevel' = "error"
          /\ UNCHANGED lastRefresh
     ELSE /\ lastRefresh' = cycleNo
          /\ statusLevel' = HealthLevel(Loaded(stationData), Total)
  /\ isRefreshing' = FALSE
  /\ spinning' = FALSE
  /\ refreshPc' = "idle"
  /\ inFlight' = inFlight - 1
  /\ UNCHANGED << days, cycleNo, jobs, timers, dataVars, envVars >>

---------------------------------------------------------------------------
\* INIT: the DOMContentLoaded handler and the handlers it registers

\* A handler that starts a cycle is taken while cycles remain to be started.
CyclesLeft ==
  cycleNo < MaxCycles

\* The handler itself: skeletons, map, listeners, then the initial refresh().
DOMContentLoaded ==
  /\ ~domLoaded
  /\ domLoaded' = TRUE
  /\ UNCHANGED << currentDays, hidden, online, raw, parsed >>
  /\ refresh(stationCard)

\* Click on a time-range button.
RangeClick(d) ==
  /\ domLoaded
  /\ ~Urgent
  /\ isRefreshing \/ CyclesLeft
  /\ currentDays' = d
  /\ UNCHANGED << hidden, domLoaded, online, raw, parsed >>
  /\ IF ~isRefreshing
     THEN refresh([s \in StationIds |-> <<>>])
     ELSE UNCHANGED << cycleCtl, jobs, timers, dataVars >>

\* Click on the manual refresh button.
ManualClick ==
  /\ domLoaded
  /\ ~Urgent
  /\ isRefreshing \/ CyclesLeft
  /\ UNCHANGED envVars
  /\ IF ~isRefreshing
     THEN refresh(stationCard)
     ELSE UNCHANGED << cycleCtl, jobs, timers, dataVars >>

\* Defect: the tick does not look at document.visibilityState.
AutoTick_IgnoresHidden ==
  /\ domLoaded
  /\ ~Urgent
  /\ isRefreshing \/ CyclesLeft
  /\ UNCHANGED envVars
  /\ IF ~isRefreshing
     THEN refresh(stationCard)
     ELSE UNCHANGED << cycleCtl, jobs, timers, dataVars >>

\* setInterval(..., REFRESH_MS): the auto-refresh tick.
AutoTick ==
  /\ domLoaded
  /\ ~Urgent
  /\ isRefreshing \/ hidden \/ CyclesLeft
  /\ UNCHANGED envVars
  /\ IF ~hidden /\ ~isRefreshing
     THEN refresh(stationCard)
     ELSE UNCHANGED << cycleCtl, jobs, timers, dataVars >>

\* setInterval(..., 60000): the age label update.
AgeTick ==
  /\ domLoaded
  /\ ~Urgent
  /\ statusLevel' = IF lastRefresh # 0 /\ ~isRefreshing
                    THEN AgeLevel(Loaded(stationData), Total)
                    ELSE statusLevel
  /\ UNCHANGED << isRefreshing, lastRefresh, spinning, days, refreshPc, cycleNo, inFlight,
                  jobs, timers, dataVars, envVars >>

\* The tab is hidden or shown.
VisibilityChange ==
  /\ ~Urgent
  /\ hidden' = ~hidden
  /\ UNCHANGED << currentDays, domLoaded, online, raw, parsed, cycleCtl, jobs, timers, dataVars >>

---------------------------------------------------------------------------
Next ==
  \/ DOMContentLoaded
  \/ \E d \in RangeDays : RangeClick(d)
  \/ ManualClick
  \/ AutoTick
  \/ AgeTick
  \/ VisibilityChange
  \/ \E id \in JobIds, ok \in BOOLEAN : FetchResolves(id, ok)
  \/ \E id \in JobIds : FetchRejects(id)
  \/ \E id \in JobIds : Unreachable(id)
  \/ \E id \in JobIds, prov \in Providers : TimerFires(id, prov)
  \/ \E id \in JobIds : BodyResolves(id)
  \/ \E id \in JobIds : BodyRejects(id)
  \/ \E markersThrow \in BOOLEAN : Join(markersThrow)

Spec == Init /\ [][Next]_vars

SpecWide == InitWide /\ [][Next]_vars

\* The event loop runs every continuation that is ready and fires every
\* timer that is due: the join continuation, a pending timeout, and the
\* failure of a request to an unreachable endpoint are not postponed for
\* ever.  A remote server owes no answer: the arrival of a response or of a
\* body has no fairness.
Fairness ==
  /\ WF_vars(\E markersThrow \in BOOLEAN : Join(markersThrow))
  /\ \A id \in JobIds : WF_vars(Unreachable(id))
  /\ \A id \in JobIds : \A prov \in TimedProviders : WF_vars(TimerFires(id, prov))

FairSpec == Init /\ [][Next]_vars /\ Fairness

---------------------------------------------------------------------------
\* PROVIDER PARSERS
\*
\* Text is a sequence of one-character strings.  A JavaScript number is
\* [k, n]: k = "fin" with n the value in hundredths, k = "inf" with n the sign,
\* or k = "nan".  A JSON value is a string, a number or null.

Fin(n) == [k |-> "fin", n |-> n]

Inf(sign) == [k |-> "inf", n |-> sign]

NaN == [k |-> "nan", n |-> 0]

JStr(s) == [t |-> "str", s |-> s, v |-> NaN]

JNum(v) == [t |-> "num", s |-> <<>>, v |-> v]

JNull == [t |-> "null", s |-> <<>>, v |-> NaN]

isNaN(x) == x.k = "nan"

IsDigit(c) == c \in {"0", "1", "2", "3", "4", "5", "6", "7", "8", "9"}

DigitVal(c) ==
  CHOOSE d \in 0..9 : << "0", "1", "2", "3", "4", "5", "6", "7", "8", "9" >>[d + 1] = c

\* The length of the longest prefix of s made of digits.
DigitRun(s) ==
  CHOOSE n \in 0..Len(s) :
    /\ \A i \in 1..n : IsDigit(s[i])
    /\ n = Len(s) \/ ~IsDigit(s[n + 1])

RECURSIVE DecVal(_)
\* The number a sequence of digits writes.
DecVal(ds) ==
  IF ds = <<>> THEN 0
  ELSE 10 * DecVal(SubSeq(ds, 1, Len(ds) - 1)) + DigitVal(ds[Len(ds)])

RECURSIVE TrimLeft(_)
TrimLeft(s) == IF s # <<>> /\ Head(s) = " " THEN TrimLeft(Tail(s)) ELSE s

StartsWith(s, p) == Len(s) >= Len(p) /\ SubSeq(s, 1, Len(p)) = p

\* The longest prefix of s (after leading blanks) that is a decimal literal:
\* an optional sign, then "Infinity" or digits with an optional fraction.
\* v is its value (NaN when there is none) and rest what follows it.  The
\* texts drawn carry no exponent and at most two fractional digits.
ScanDecimal(s0) ==
  LET s    == TrimLeft(s0)
      neg  == s # <<>> /\ Head(s) = "-"
      body == IF s # <<>> /\ Head(s) \in {"-", "+"} THEN Tail(s) ELSE s
      sgn  == IF neg THEN -1 ELSE 1
      ni   == DigitRun(body)
      aft  == SubSeq(body, ni + 1, Len(body))
      dot  == aft # <<>> /\ Head(aft) = "."
      fr   == IF dot THEN Tail(aft) ELSE <<>>
      nf   == DigitRun(fr)
      hundredths == 100 * DecVal(SubSeq(body, 1, ni))
                      + (IF nf > 0 THEN 10 * DigitVal(fr[1]) ELSE 0)
                      + (IF nf > 1 THEN DigitVal(fr[2]) ELSE 0)
  IN  IF StartsWith(body, << "I", "n", "f", "i", "n", "i", "t", "y" >>)
      THEN [v |-> Inf(sgn), rest |-> SubSeq(body, 9, Len(body))]
      ELSE IF ni = 0 /\ nf = 0
      THEN [v |-> NaN, rest |-> s]
      ELSE [v |-> Fin(sgn * hundredths),
            rest |-> IF dot /\ (ni > 0 \/ nf > 0)
                     THEN SubSeq(fr, nf + 1, Len(fr)) ELSE aft]

RECURSIVE NatChars(_)
NatChars(n) ==
  IF n < 10 THEN << << "0", "1", "2", "3", "4", "5", "6", "7", "8", "9" >>[n + 1] >>
  ELSE NatChars(n \div 10) \o NatChars(n % 10)

\* String(x) for a number.
NumChars(x) ==
  CASE x.k = "nan" -> << "N", "a", "N" >>
    [] x.k = "inf" -> (IF x.n < 0 THEN << "-" >> ELSE <<>>)
                        \o << "I", "n", "f", "i", "n", "i", "t", "y" >>
    [] x.k = "fin" ->
         LET a == IF x.n < 0 THEN 0 - x.n ELSE x.n
         IN  (IF x.n < 0 THEN << "-" >> ELSE <<>>)
               \o NatChars(a \div 100)
               \o (IF a % 100 = 0 THEN <<>>
                   ELSE << "." >> \o NatChars((a % 100) \div 10)
                          \o (IF a % 10 = 0 THEN <<>> ELSE NatChars(a % 10)))

\* String(j) for a JSON value.
ToChars(j) ==
  CASE j.t = "str"  -> j.s
    [] j.t = "num"  -> NumChars(j.v)
    [] j.t = "null" -> << "n", "u", "l", "l" >>

\* parseFloat(j): the argument is turned into text, and the longest decimal
\* prefix of the text is the result.
parseFloat(j) == ScanDecimal(ToChars(j)).v

\* Number(j), as the multiplication `d.secondary * 1000` coerces it: a
\* blank text is 0 and a text with anything after the literal is NaN.
ToNumber(j) ==
  CASE j.t = "num"  -> j.v
    [] j.t = "null" -> Fin(0)
    [] j.t = "str"  ->
         LET sc == ScanDecimal(j.s)
         IN  IF TrimLeft(j.s) = <<>> THEN Fin(0)
             ELSE IF TrimLeft(sc.rest) = <<>> THEN sc.v ELSE NaN

\* Truthiness of a JSON value: '', 0, NaN and null are falsy.
Truthy(j) ==
  CASE j.t = "str"  -> j.s # <<>>
    [] j.t = "num"  -> ~(j.v.k = "nan" \/ (j.v.k = "fin" /\ j.v.n = 0))
    [] j.t = "null" -> FALSE

\* The missing-value marker of the USGS service, as text and as a number.
SentinelText == << "-", "9", "9", "9", "9", "9", "9" >>

Sentinel == ScanDecimal(SentinelText).v

\* A Date: Invalid Date, or a point in time counted in days.
InvalidDate == [valid |-> FALSE, t |-> 0]

\* The date texts `new Date` understands, among those drawn, with their day
\* of the year 2026.
KnownDates ==
  [ tok \in { "2026-11-03T12:00:00.000-08:00", "2026-11-03 12:00",
              "2026-02-18 17:30", "2026-09-01 12:00" } |->
      CASE tok = "2026-02-18 17:30" -> 49
        [] tok = "2026-09-01 12:00" -> 244
        [] OTHER -> 307 ]

\* A field that is absent reads as undefined.
Undefined == "undefined"

\* new Date(tok): Invalid Date for undefined and for a text that is no date.
NewDate(tok) ==
  IF tok \in DOMAIN KnownDates
  THEN [valid |-> TRUE, t |-> KnownDates[tok]]
  ELSE InvalidDate

Map(s, F(_)) == [i \in DOMAIN s |-> F(s[i])]

\* value * 9 / 5 + 32
CtoF(x) == IF x.k = "fin" THEN Fin((x.n * 9) \div 5 + 3200) ELSE x

\* Math.round(x * 1000), for x a multiple of a thousandth.
RoundTimes1000(x) ==
  CASE x.k = "fin" -> Fin(x.n * 1000)
    [] x.k = "inf" -> x
    [] x.k = "nan" -> x

\* x >= 0
NonNegative(x) == (x.k = "fin" /\ x.n >= 0) \/ (x.k = "inf" /\ x.n > 0)

\* The values of one time series, as parseUSGSJSON filters and maps them.
USGSVals(values) ==
  LET Kept(v)  == Truthy(v.value) /\ ~(v.value.t = "str" /\ v.value.s = SentinelText)
      Conv(v)  == [time |-> NewDate(v.dateTime), value |-> parseFloat(v.value)]
      Num(x)   == ~isNaN(x.value)
  IN  SelectSeq(Map(SelectSeq(values, Kept), Conv), Num)

RECURSIVE parseUSGSFrom(_, _)
parseUSGSFrom(tss, out) ==
  IF tss = <<>> THEN out
  ELSE LET ts   == Head(tss)
           vals == USGSVals(ts.values)
           ToF(x) == [x EXCEPT !.value = CtoF(x.value)]
       IN  parseUSGSFrom(Tail(tss),
             CASE ts.code = "00060" -> [out EXCEPT !.discharge = vals]
               [] ts.code = "00010" -> [out EXCEPT !.waterTemp = Map(vals, ToF)]
               [] ts.code = "00065" -> [out EXCEPT !.gageHeight = vals]
               [] OTHER -> out)

parseUSGSJSON(json) == parseUSGSFrom(json.timeSeries, EmptySeriesSet)

\* A line of the CSV text, trimmed and not empty, is [c0, cols]: its first
\* column (trimmed) and the columns after it, as split(',') gives them.

\* toLowerCase, on the letters of the texts drawn.
LowerChar(c) ==
  CASE c = "E" -> "e" [] c = "A" -> "a" [] c = "S" -> "s" [] c = "W" -> "w"
    [] c = "Q" -> "q" [] c = "T" -> "t" [] OTHER -> c

Lower(s) == [i \in DOMAIN s |-> LowerChar(s[i])]

\* l.toLowerCase().startsWith('datetime'), for the first columns drawn.
IsHeaderLine(line) == line.c0 \in {"DateTime", "DATETIME", "datetime"}

EndsWith(s, q) == Len(s) >= Len(q) /\ SubSeq(s, Len(s) - Len(q) + 1, Len(s)) = q

\* headers.findIndex(h => h === `${stationLower}${suffix}` || h.endsWith(suffix)):
\* the 0-based index in the header line, whose column 0 is the date
\* heading; -1 when there is none.
HeaderIndex(header, suffix) ==
  LET hit == { i \in DOMAIN header.cols : EndsWith(Lower(header.cols[i]), suffix) }
  IN  IF hit = {} THEN -1 ELSE CHOOSE i \in hit : \A k \in hit : i <= k

\* cols[i] of a data row; a column that is not there reads as undefined,
\* which parseFloat turns into "undefined".
Col(row, i) ==
  IF i \in DOMAIN row.cols THEN JStr(row.cols[i])
  ELSE JStr(<< "u", "n", "d", "e", "f", "i", "n", "e", "d" >>)

RECURSIVE parseUSBRFrom(_, _, _, _)
parseUSBRFrom(rows, qIdx, twIdx, out) ==
  IF rows = <<>> THEN out
  ELSE LET row  == Head(rows)
           dt   == NewDate(row.c0)
           val  == parseFloat(Col(row, qIdx))
           valC == parseFloat(Col(row, twIdx))
           q    == IF qIdx >= 0 /\ ~isNaN(val) /\ NonNegative(val)
                   THEN << [time |-> dt, value |-> val] >> ELSE <<>>
           tw   == IF twIdx >= 0 /\ ~isNaN(valC)
                   THEN << [time |-> dt, value |-> CtoF(valC)] >> ELSE <<>>
       IN  parseUSBRFrom(Tail(rows), qIdx, twIdx,
             IF 1 + Len(row.cols) < 2 \/ ~dt.valid THEN out
             ELSE [out EXCEPT !.discharge = @ \o q, !.waterTemp = @ \o tw])

\* Defect: the data loop starts at the first line, not after the header.
parseUSBRCSV_AllLines(csv) ==
  LET lines == csv.lines
      heads == { i \in DOMAIN lines : IsHeaderLine(lines[i]) }
  IN  IF Len(lines) < 2 \/ heads = {} THEN EmptySeriesSet
      ELSE LET headerIdx == CHOOSE i \in heads : \A k \in heads : i <= k
               qIdx  == HeaderIndex(lines[headerIdx], << "_", "q" >>)
               twIdx == HeaderIndex(lines[headerIdx], << "_", "t", "w" >>)
           IN  parseUSBRFrom(lines, qIdx, twIdx, EmptySeriesSet)

\* function parseUSBRCSV(text, stationLower), on the lines of text.
parseUSBRCSV(csv) ==
  LET lines == csv.lines
      heads == { i \in DOMAIN lines : IsHeaderLine(lines[i]) }
  IN  IF Len(lines) < 2 \/ heads = {} THEN EmptySeriesSet
      ELSE LET headerIdx == CHOOSE i \in heads : \A k \in heads : i <= k
               qIdx  == HeaderIndex(lines[headerIdx], << "_", "q" >>)
               twIdx == HeaderIndex(lines[headerIdx], << "_", "t", "w" >>)
           IN  parseUSBRFrom(SubSeq(lines, headerIdx + 1, Len(lines)),
                             qIdx, twIdx, EmptySeriesSet)

\* parseNWRFCTempHTML on the matches m of its pattern in the page, which
\* captures a date of digits and a value of digits with an optional
\* fraction.
parseNWRFCTempHTML(html, d) ==
  LET cutoff == html.now - d
      Conv(m) == [time |-> NewDate(m.dt), value |-> parseFloat(JStr(m.val))]
      Kept(x) == x.time.valid /\ x.time.t >= cutoff /\ ~isNaN(x.value)
  IN  SelectSeq(Map(html.matches, Conv), Kept)

\* The mapping of fetchNWSForecast over json.forecast.data.
ForecastMapping(data) ==
  LET Given(e) == e.secondary.t # "null"
      Conv(e)  == [time |-> NewDate(e.validTime),
                   value |-> RoundTimes1000(ToNumber(e.secondary))]
      Kept(x)  == x.time.valid /\ NonNegative(x.value)
  IN  SelectSeq(Map(SelectSeq(data, Given), Conv), Kept)

\* The raw inputs drawn: sequences of at most MaxRaw entries.
SeqsUpTo(S, n) == UNION { [1..k -> S] : k \in 0..n }

Chars125 == << "1", "2", ".", "5" >>

JSONValues ==
  { JStr(Chars125), JStr(SentinelText), JStr(<<>>), JStr(<< "a", "b", "c" >>),
    JStr(<< "I", "n", "f", "i", "n", "i", "t", "y" >>),
    JNum(Fin(1250)), JNum(Sentinel), JNull }

USGSInputs ==
  LET entries == [ value : JSONValues,
                   dateTime : {"2026-11-03T12:00:00.000-08:00", "n/a"} ]
      series  == [ code : {"00060", "00010", "00065", "72019"},
                   values : SeqsUpTo(entries, MaxRaw) ]
      one     == << [ value |-> JStr(Chars125),
                      dateTime |-> "2026-11-03T12:00:00.000-08:00" ] >>
      more    == { [code |-> "72019", values |-> one], [code |-> "00010", values |-> one] }
  IN  [ kind : {"usgs"},
        timeSeries : {<<>>} \cup { << ts >> : ts \in series }
                       \cup { << ts, x >> : ts \in series, x \in more } ]

USBRInputs ==
  LET q  == << "e", "a", "s", "w", "_", "q" >>
      tw == << "e", "a", "s", "w", "_", "t", "w" >>
      Q  == << "E", "A", "S", "W", "_", "Q" >>
      headers == { [c0 |-> "DateTime", cols |-> << q, tw >>],
                   [c0 |-> "datetime", cols |-> << tw >>],
                   [c0 |-> "DATETIME", cols |-> << Q >>] }
      qCell  == { << "3", "2", "6", ".", "5", "7" >>, << "-", "3" >>, <<>> }
      twCell == { << "4", "1", ".", "0" >>, SentinelText, <<>> }
      rows == { [c0 |-> "2026-02-18 17:30", cols |-> << a, b >>] : a \in qCell, b \in twCell }
                \cup { [c0 |-> "2026-02-18 17:30", cols |-> <<>>],
                       [c0 |-> "n/a", cols |-> << << "3", "2", "6", ".", "5", "7" >>,
                                                  << "4", "1", ".", "0" >> >>],
                       [c0 |-> "BEGIN DATA", cols |-> <<>>] }
  IN  [ kind : {"usbr"}, lines : SeqsUpTo(headers \cup rows, MaxRaw + 1) ]

NWRFCInputs ==
  LET matches == [ dt : {"2026-11-03 12:00", "2026-09-01 12:00", "2026-13-45 99:99"},
                   val : { Chars125, << "0" >>, << "7", "." >> } ]
  IN  [ kind : {"nwrfc"}, now : {308, 344}, days : RangeDays,
        matches : SeqsUpTo(matches, MaxRaw) ]

NWSInputs ==
  LET entries == [ secondary : { JNum(Fin(1250)), JNum(Fin(-99900)), JNum(Inf(1)),
                                 JNull, JStr(Chars125), JStr(<< "a", "b", "c" >>) },
                   validTime : {"2026-11-03T12:00:00.000-08:00", "n/a", Undefined} ]
  IN  [ kind : {"nws"}, data : SeqsUpTo(entries, MaxRaw) ]

InitParse ==
  /\ InitIn({WideScenario})
  /\ hidden = FALSE
  /\ parsed = <<>>
  /\ \/ raw \in USGSInputs
     \/ raw \in USBRInputs
     \/ raw \in NWRFCInputs
     \/ raw \in NWSInputs

ParseUSGS ==
  /\ raw.kind = "usgs" /\ parsed = <<>>
  /\ parsed' = << parseUSGSJSON(raw) >>
  /\ UNCHANGED << raw, cycleCtl, currentDays, hidden, domLoaded, online, jobs, timers, dataVars >>

ParseUSBR ==
  /\ raw.kind = "usbr" /\ parsed = <<>>
  /\ parsed' = << parseUSBRCSV(raw) >>
  /\ UNCHANGED << raw, cycleCtl, currentDays, hidden, domLoaded, online, jobs, timers, dataVars >>

ParseNWRFC ==
  /\ raw.kind = "nwrfc" /\ parsed = <<>>
  /\ parsed' = << parseNWRFCTempHTML(raw, raw.days) >>
  /\ UNCHANGED << raw, cycleCtl, currentDays, hidden, domLoaded, online, jobs, timers, dataVars >>

ParseNWS ==
  /\ raw.kind = "nws" /\ parsed = <<>>
  /\ parsed' = << ForecastMapping(raw.data) >>
  /\ UNCHANGED << raw, cycleCtl, currentDays, hidden, domLoaded, online, jobs, timers, dataVars >>

NextParse == ParseUSGS \/ ParseUSBR \/ ParseNWRFC \/ ParseNWS

SpecParse == InitParse /\ [][NextParse]_vars

---------------------------------------------------------------------------
\* HELPERS: downsample, getTrend, the hydrograph's alignment, the Windy
\* parser.  Each is applied to an argument drawn into `raw`.

\* Math.ceil(a / b) for a > 0 and b >= 0; a / 0 is Infinity.
CeilDiv(a, b) ==
  IF b = 0 THEN [inf |-> TRUE, n |-> 0]
  ELSE [inf |-> FALSE, n |-> (a + b - 1) \div b]

\* i % step for i >= 0; i % Infinity is i.
Rem(i, step) == IF step.inf THEN i ELSE i % step.n

RECURSIVE FilterStep(_, _, _)
\* arr.filter((_, i) => i % step === 0) over the 0-based indices from i on.
FilterStep(arr, i, step) ==
  IF i >= Len(arr) THEN <<>>
  ELSE (IF Rem(i, step) = 0 THEN << arr[i + 1] >> ELSE <<>>)
         \o FilterStep(arr, i + 1, step)

\* function downsample(arr, maxCount)
downsample(arr, maxCount) ==
  IF Len(arr) <= maxCount THEN arr
  ELSE FilterStep(arr, 0, CeilDiv(Len(arr), maxCount))

DownsampleInputs ==
  [ kind : {"downsample"}, arr : SeqsUpTo({"a", "b"}, MaxLen), max : 0..MaxCount ]

RECURSIVE LatestFrom(_, _)
\* values.reduce((best, v) => (v.time > best.time ? v : best)) continued
\* over vs with best so far.
LatestFrom(vs, best) ==
  IF vs = <<>> THEN best
  ELSE LatestFrom(Tail(vs), IF Head(vs).time > best.time THEN Head(vs) ELSE best)

\* function getLatestValue(values): <<>> for null, else <<sample>>.
getLatestValue(values) ==
  IF Len(values) = 0 THEN <<>> ELSE << LatestFrom(Tail(values), Head(values)) >>

\* values.filter(v => v.time <= cutoff).sort((a, b) => b.time - a.time)[0]:
\* the sort is stable, so of the kept samples with the greatest time the
\* first in list order comes first.  <<>> for undefined.
PastSample(values, cutoff) ==
  LET Old(v) == v.time <= cutoff
      kept == SelectSeq(values, Old)
  IN  IF kept = <<>> THEN <<>>
      ELSE LET i == CHOOSE k \in DOMAIN kept :
                      /\ \A m \in DOMAIN kept : kept[m].time <= kept[k].time
                      /\ \A m \in 1..(k - 1) : kept[m].time < kept[k].time
           IN  << kept[i] >>

\* pct = (latest - past) / past compared with +0.10 and -0.10, for past # 0.
\* The quotient is compared exactly: pct > 1/10 is 10 * (latest - past) > past
\* for past > 0 and the reverse for past < 0.
PctTrend(latest, past) ==
  LET num == 10 * (latest - past)
      above == IF past > 0 THEN num > past ELSE num < past
      below == IF past > 0 THEN num < 0 - past ELSE num > 0 - past
  IN  IF above THEN "rising" ELSE IF below THEN "falling" ELSE "stable"

\* function getTrend(values, hoursBack = 24).  Times are in hours.
getTrend(values, hoursBack) ==
  IF Len(values) < 2 THEN "stable"
  ELSE LET latest == getLatestValue(values)[1]
           cutoff == latest.time - hoursBack
           past   == PastSample(values, cutoff)
       IN  IF past = <<>> \/ past[1].value = 0 THEN "stable"
           ELSE PctTrend(latest.value, past[1].value)

TrendInputs ==
  [ kind : {"trend"}, now : {47, 72},
    values : SeqsUpTo([time : {0, 24, 47}, value : {-10, 0, 10, 11, 20}], MaxTrend) ]

GetTrend ==
  /\ raw.kind = "trend" /\ parsed = <<>>
  /\ parsed' = << getTrend(raw.values, 24) >>
  /\ UNCHANGED << raw, cycleCtl, currentDays, hidden, domLoaded, online, jobs, timers, dataVars >>

RECURSIVE InsertByTime(_, _)
\* sorted with v put after every element whose time is not later than v's.
InsertByTime(sorted, v) ==
  IF sorted = <<>> THEN << v >>
  ELSE IF Head(sorted).time <= v.time
       THEN << Head(sorted) >> \o InsertByTime(Tail(sorted), v)
       ELSE << v >> \o sorted

RECURSIVE SortByTime(_)
\* [...waterTemp].sort((a, b) => a.time - b.time): ascending and stable.
SortByTime(vs) ==
  IF vs = <<>> THEN <<>>
  ELSE InsertByTime(SortByTime(SubSeq(vs, 1, Len(vs) - 1)), vs[Len(vs)])

\* Math.abs(a - b)
AbsDiff(a, b) == IF a >= b THEN a - b ELSE b - a

RECURSIVE NearestFrom(_, _, _)
\* sortedT.reduce((best, tv) => |tv.time - t| < |best.time - t| ? tv : best)
\* continued over vs with best so far.
NearestFrom(vs, best, t) ==
  IF vs = <<>> THEN best
  ELSE NearestFrom(Tail(vs),
         IF AbsDiff(Head(vs).time, t) < AbsDiff(best.time, t) THEN Head(vs) ELSE best, t)

\* Defect: a match exactly 4 hours away is accepted.
UnderGap_Inclusive(gap) == gap <= 4

\* Math.abs(nearest.time - dp.time) < 4 * 3600000, times in hours.
UnderGap(gap) == gap < 4

\* createHydrograph's aligned temperatures for the discharge and waterTemp
\* series: <<>> for tData = null (no temperature), else << aligned >> with
\* one entry per point of ds, <<value>> or <<>> for null.
AlignTemps(discharge, waterTemp) ==
  LET ds == downsample(discharge, 80)
      sortedT == SortByTime(waterTemp)
  IN  IF Len(waterTemp) > 0
      THEN << [ i \in DOMAIN ds |->
                  LET nearest == NearestFrom(Tail(sortedT), Head(sortedT), ds[i].time)
                  IN  IF UnderGap(AbsDiff(nearest.time, ds[i].time))
                      THEN << nearest.value >> ELSE <<>> ] >>
      ELSE <<>>

AlignInputs ==
  [ kind : {"align"},
    discharge : SeqsUpTo([time : {0, 8}, value : {100}], MaxAlign),
    waterTemp : SeqsUpTo([time : {3, 4, 5, 7, 9}, value : {50, 60}], MaxAlign) ]

Align ==
  /\ raw.kind = "align" /\ parsed = <<>>
  /\ parsed' = << AlignTemps(raw.discharge, raw.waterTemp) >>
  /\ UNCHANGED << raw, cycleCtl, currentDays, hidden, domLoaded, online, jobs, timers, dataVars >>

RECURSIVE CurIdxFrom(_, _, _, _)
\* for (let i = ...; i < ts.length; i++) { if (ts[i] <= now) curIdx = i; }
\* from index i on, with curIdx so far.
CurIdxFrom(ts, now, i, curIdx) ==
  IF i >= Len(ts) THEN curIdx
  ELSE CurIdxFrom(ts, now, i + 1, IF ts[i + 1] <= now THEN i ELSE curIdx)

\* parseWindyResponse's index of the 'current' timestep: let curIdx = 0,
\* then the loop over ts.
CurIdx(ts, now) == CurIdxFrom(ts, now, 0, 0)

WindyInputs ==
  [ kind : {"windy"}, now : {5, 25}, ts : SeqsUpTo({10, 20, 30}, MaxTs) ]

ParseWindy ==
  /\ raw.kind = "windy" /\ parsed = <<>>
  /\ parsed' = << CurIdx(raw.ts, raw.now) >>
  /\ UNCHANGED << raw, cycleCtl, currentDays, hidden, domLoaded, online, jobs, timers, dataVars >>

InitHelpers ==
  /\ InitIn({WideScenario})
  /\ hidden = FALSE
  /\ parsed = <<>>
  /\ \/ raw \in DownsampleInputs
     \/ raw \in TrendInputs
     \/ raw \in AlignInputs
     \/ raw \in WindyInputs

Downsample ==
  /\ raw.kind = "downsample" /\ parsed = <<>>
  /\ parsed' = << downsample(raw.arr, raw.max) >>
  /\ UNCHANGED << raw, cycleCtl, currentDays, hidden, domLoaded, online, jobs, timers, dataVars >>

NextHelpers ==
  \/ Downsample
  \/ GetTrend
  \/ Align
  \/ ParseWindy

SpecHelpers == InitHelpers /\ [][NextHelpers]_vars

---------------------------------------------------------------------------
\* PROPERTIES

\* A step of one of the handlers that call refresh().
Trigger ==
  \/ DOMContentLoaded
  \/ ManualClick
  \/ AutoTick
  \/ \E d \in RangeDays : RangeClick(d)

\* The step settles the job of station s: its store and its render have run.
Settles(s) == InCall(jobs[s]) /\ Settled(jobs'[s])

\* The calls station s has made to provider p in the running job.
CallsTo(s, p) == { i \in DOMAIN jobs[s].log : jobs[s].log[i].prov = p }

\* The calls of station s to the discharge providers in ps that returned a
\* non-empty discharge series.
Good(s, ps) ==
  { i \in DOMAIN jobs[s].log :
      /\ jobs[s].log[i].prov \in ps
      /\ jobs[s].log[i].out.ok
      /\ jobs[s].log[i].out.data.discharge # <<>> }

\* The samples of the three observed series of a stored reading.
Samples(r) ==
  { r.discharge[k] : k \in DOMAIN r.discharge }
    \cup { r.waterTemp[k] : k \in DOMAIN r.waterTemp }
    \cup { r.gageHeight[k] : k \in DOMAIN r.gageHeight }

\* C1: at most one refresh cycle is in flight at any time, and a trigger
\* (initial load, manual click, range click, auto-refresh tick) that arrives
\* while state.isRefreshing is true issues no request and leaves stationData,
\* weatherData, lastRefresh and the flag as they are.
C1_OneCycleInFlight ==
  /\ [](inFlight <= 1)
  /\ [][ (isRefreshing /\ Trigger)
           => UNCHANGED << stationData, weatherData, lastRefresh, isRefreshing,
                           jobs, timers, cycleNo >> ]_vars

\* A range click arrived during a cycle: the lookback changed, the cycle
\* under way still runs with the one it captured, and it is the only one.
C1_Witness ==
  isRefreshing /\ inFlight = 1 /\ currentDays # days /\ refreshPc = "await"

\* C2: every cycle that sets state.isRefreshing to true eventually sets it
\* back to false.
C2_FlagEventuallyCleared == isRefreshing ~> ~isRefreshing

\* C3: every network call a cycle has started and that awaits its response
\* has its own armed timeout.
C3_EveryCallHasTimeout ==
  \A id \in JobIds :
    jobs[id].phase = "headers" => << id, jobs[id].pc >> \in timers

\* C4: a call of one of the five orchestrators that arm a timeout does not
\* stay outstanding for ever, whether it awaits the response or the body.
C4_CallBoundedByTimeout ==
  \A id \in StationIds \cup WEATHER_LOCATIONS :
    \A prov \in TimedProviders :
      (jobs[id].pc = prov /\ InCall(jobs[id]))
        ~> ~(jobs[id].pc = prov /\ InCall(jobs[id]))

\* C5: a pending timeout timer always belongs to a call that still awaits
\* its response; once a call has settled, on any path, its timer is gone.
C5_NoLeakedTimer ==
  \A t \in timers : jobs[t[1]].pc = t[2] /\ jobs[t[1]].phase = "headers"

\* The USGS call of umtanum threw, the job went on to USBR: the USGS timer is
\* no longer pending, the one of the USBR call is.
C5_Witness ==
  /\ jobs["umtanum"].pc = "usbr"
  /\ Len(jobs["umtanum"].log) = 1
  /\ ~jobs["umtanum"].log[1].out.ok
  /\ << "umtanum", "usgs" >> \notin timers
  /\ << "umtanum", "usbr" >> \in timers

\* C6: lastRefresh is set and the aggregate status computed only once every
\* station, weather and alert job has settled; the rejection of one job
\* changes no other job; and once all have settled, fulfilled or rejected,
\* the aggregate step can run.
C6_JoinWaitsForAll ==
  /\ [][ /\ (lastRefresh' # lastRefresh \/ (refreshPc = "await" /\ refreshPc' = "idle"))
              => \A id \in JobIds : Settled(jobs[id])
         /\ \A id \in JobIds :
              (jobs[id].pc # "rejected" /\ jobs'[id].pc = "rejected")
                => \A o \in JobIds \ {id} : jobs'[o] = jobs[o] ]_vars
  /\ []( (refreshPc = "await" /\ \A id \in JobIds : Settled(jobs[id]))
           => ENABLED Join(FALSE) )

\* A cycle with a rejected job and a fulfilled one has passed its join and
\* set lastRefresh.
C6_Witness ==
  /\ cycleNo > 0
  /\ lastRefresh = cycleNo
  /\ ~isRefreshing
  /\ \E a \in JobIds : jobs[a].pc = "rejected"
  /\ \E b \in JobIds : jobs[b].pc = "fulfilled"

\* C7: the step that ends a cycle (it sets lastRefresh) leaves the indicator
\* at 'ok' when every station's stored reading has a non-empty discharge
\* series, at 'warn' when some but not all have, at 'error' when none has.
C7_HealthIndicator ==
  [][ lastRefresh' # lastRefresh =>
        LET n == Cardinality({ s \in StationIds :
                                 /\ stationData'[s] # <<>>
                                 /\ stationData'[s][1].discharge # <<>> })
        IN  /\ n = Cardinality(StationIds) => statusLevel' = "ok"
            /\ (0 < n /\ n < Cardinality(StationIds)) => statusLevel' = "warn"
            /\ n = 0 => statusLevel' = "error" ]_vars

\* Two stations of three loaded, one did not: the join has completed, all
\* three cards are rendered and the indicator is at 'warn'.
C7_Witness ==
  /\ cycleNo > 0
  /\ lastRefresh = cycleNo
  /\ ~isRefreshing
  /\ statusLevel = "warn"
  /\ \A s \in StationIds : stationCard[s] # <<>> /\ stationCard[s] = stationData[s]
  /\ Cardinality({ s \in StationIds : stationData[s][1].discharge # <<>> }) = 2

\* C8: when no USGS call of the job returned a non-empty discharge series
\* and its USBR call did, the stored reading has source 'USBR' and the
\* discharge series that call returned; the job of a station without a USGS
\* identifier starts with the USBR call.
C8_SecondaryFallback ==
  [][ \A s \in StationIds :
        /\ (Settles(s) /\ Good(s, {"usgs"}) = {})
             => \A i \in Good(s, {"usbr"}) :
                  /\ stationData'[s][1].source = "USBR"
                  /\ stationData'[s][1].discharge # <<>>
                  /\ stationData'[s][1].discharge = jobs[s].log[i].out.data.discharge
        /\ (~Has(STATIONS[s].usgsId) /\ ~InCall(jobs[s]) /\ InCall(jobs'[s]))
             => jobs'[s].pc = "usbr" ]_vars

\* umtanum, which has both identifiers, stored a reading from USBR.
C8_Witness ==
  /\ Settled(jobs["umtanum"])
  /\ stationData["umtanum"] # <<>>
  /\ stationData["umtanum"][1].source = "USBR"
  /\ stationData["umtanum"][1].discharge = << << "USBR", days >> >>

\* C9: the job of a station with a USGS identifier starts with the USGS call
\* and requests USBR only as the step after it; when the USGS call returned
\* a non-empty discharge series, USBR is not requested and the stored reading
\* has source 'USGS' and that series; when it did not, the stored reading
\* has another source and holds no USGS sample.
C9_PrimaryFirst ==
  [][ \A s \in StationIds : Has(STATIONS[s].usgsId) =>
        /\ (~InCall(jobs[s]) /\ InCall(jobs'[s])) => jobs'[s].pc = "usgs"
        /\ (jobs[s].pc # "usbr" /\ jobs'[s].pc = "usbr") => jobs[s].pc = "usgs"
        /\ Settles(s) =>
             /\ CallsTo(s, "usgs") # {}
             /\ \A i \in Good(s, {"usgs"}) :
                  /\ CallsTo(s, "usbr") = {}
                  /\ stationData'[s][1].source = "USGS"
                  /\ stationData'[s][1].discharge = jobs[s].log[i].out.data.discharge
             /\ Good(s, {"usgs"}) = {} =>
                  /\ stationData'[s][1].source # "USGS"
                  /\ \A x \in Samples(stationData'[s][1]) : x[1] # "USGS" ]_vars

\* The USGS call of umtanum returned discharge: the job is at the forecast
\* call, having made no other call, with source 'USGS'.
C9_Witness ==
  /\ jobs["umtanum"].pc = "nws"
  /\ Len(jobs["umtanum"].log) = 1
  /\ jobs["umtanum"].log[1].prov = "usgs"
  /\ jobs["umtanum"].source = "USGS"
  /\ jobs["umtanum"].result[1].discharge # <<>>

\* C10: the job calls NWRFC if and only if a discharge result was accepted,
\* the station has an NWRFC identifier and the accepted water-temperature
\* series is empty; a non-empty series it returns becomes waterTemp,
\* otherwise waterTemp stays as accepted; discharge, gage height and source
\* of the accepted result are stored unchanged in every case.
C10_TempSupplement ==
  [][ \A s \in StationIds : Settles(s) =>
        LET acc == Good(s, {"usgs", "usbr"})
            sup == { i \in CallsTo(s, "nwrfc") :
                       jobs[s].log[i].out.ok /\ jobs[s].log[i].out.data # <<>> }
        IN  /\ (CallsTo(s, "nwrfc") # {})
                 <=> ( /\ Has(STATIONS[s].nwrfcId)
                       /\ \E i \in acc : jobs[s].log[i].out.data.waterTemp = <<>> )
            /\ Cardinality(CallsTo(s, "nwrfc")) <= 1
            /\ \A i \in acc :
                 /\ stationData'[s][1].discharge = jobs[s].log[i].out.data.discharge
                 /\ stationData'[s][1].gageHeight = jobs[s].log[i].out.data.gageHeight
                 /\ stationData'[s][1].source =
                      (IF jobs[s].log[i].prov = "usgs" THEN "USGS" ELSE "USBR")
                 /\ sup = {} =>
                      stationData'[s][1].waterTemp = jobs[s].log[i].out.data.waterTemp
            /\ \A i \in sup :
                 stationData'[s][1].waterTemp = jobs[s].log[i].out.data ]_vars

\* horlick stored USBR discharge with the NWRFC water temperature merged in.
C10_Witness ==
  /\ Settled(jobs["horlick"])
  /\ stationData["horlick"] # <<>>
  /\ stationData["horlick"][1].source = "USBR"
  /\ stationData["horlick"][1].discharge = << << "USBR", days >> >>
  /\ stationData["horlick"][1].waterTemp = << << "NWRFC", days >> >>
  /\ stationData["horlick"][1].gageHeight = <<>>

\* The forecast request of the running job of station s has been issued.
ForecastIssued(s) == jobs[s].pc = "nws" \/ CallsTo(s, "nws") # {}

\* C11: the forecast fetch of a station with a forecast identifier runs
\* concurrently with its observed-data calls: while the job awaits USGS, USBR
\* or NWRFC, its forecast request has already been issued.
C11_ForecastConcurrent ==
  \A s \in StationIds :
    (Has(STATIONS[s].nwsLid) /\ InCall(jobs[s])) => ForecastIssued(s)

\* The step is the failure of the call job id awaits: a network error, a
\* non-ok status, an abort by the timeout, or a body that cannot be read.
CallFails(id) ==
  \/ Unreachable(id)
  \/ FetchRejects(id)
  \/ FetchResolves(id, FALSE)
  \/ BodyRejects(id)
  \/ TimerFires(id, jobs[id].pc)

\* C12: whatever the outcome of a station's forecast call, the reading
\* stored has the discharge, waterTemp, gageHeight and source the job held
\* before that call; when the call fails the stored forecast is empty.
C12_ForecastFailureIsolated ==
  [][ \A s \in StationIds :
        (Settles(s) /\ jobs[s].pc = "nws") =>
          LET r   == stationData'[s][1]
              acc == IF jobs[s].result = <<>> THEN EmptySeriesSet ELSE jobs[s].result[1]
          IN  /\ r.discharge = acc.discharge
              /\ r.waterTemp = acc.waterTemp
              /\ r.gageHeight = acc.gageHeight
              /\ r.source = jobs[s].source
              /\ CallFails(s) => r.forecast = <<>> ]_vars

\* The forecast service of umtanum is unreachable: its reading is stored
\* with the discharge USGS returned and an empty forecast.
C12_Witness ==
  /\ << "umtanum", "nws" >> \notin online
  /\ Settled(jobs["umtanum"])
  /\ stationData["umtanum"] # <<>>
  /\ stationData["umtanum"][1].source = "USGS"
  /\ stationData["umtanum"][1].discharge # <<>>
  /\ stationData["umtanum"][1].forecast = <<>>

\* The step ends the call job id awaits, by a failure or by its body.
CallEnds(id) ==
  \/ Unreachable(id)
  \/ FetchRejects(id)
  \/ BodyRejects(id)
  \/ BodyResolves(id)

\* C13: the step that ends a station's job stores a reading under the
\* station's key and, unless the render throws, shows it on the station's
\* card; it touches no other job, reading or card; and the end of the call a
\* station's job awaits, its last one included, is never held back by the
\* other jobs (it can happen whenever no failure of another job is due).
C13_StoreAndRenderOwnPace ==
  /\ [][ \A s \in StationIds :
           Settles(s) =>
             /\ stationData'[s] # <<>>
             /\ jobs'[s].pc = "fulfilled" => stationCard'[s] = stationData'[s]
             /\ \A o \in JobIds \ {s} : jobs'[o] = jobs[o]
             /\ \A o \in StationIds \ {s} :
                  stationData'[o] = stationData[o] /\ stationCard'[o] = stationCard[o] ]_vars
  /\ [](\A s \in StationIds :
          (InCall(jobs[s]) /\ UrgentJobs \subseteq {s}) => ENABLED CallEnds(s))

\* umtanum, the last station of the list, has stored and rendered an
\* all-empty reading while easton, the first, still awaits a response.
C13_Witness ==
  /\ jobs["umtanum"].pc = "fulfilled"
  /\ stationData["umtanum"] # <<>>
  /\ stationData["umtanum"][1].discharge = <<>>
  /\ stationCard["umtanum"] = stationData["umtanum"]
  /\ InCall(jobs["easton"])
  /\ stationCard["easton"] = <<>>

\* The samples the calls of the running job of station s have returned.
Returned(s) ==
  UNION { IF ~jobs[s].log[i].out.ok THEN {}
          ELSE IF jobs[s].log[i].prov = "nwrfc"
               THEN { jobs[s].log[i].out.data[k] : k \in DOMAIN jobs[s].log[i].out.data }
               ELSE Samples(jobs[s].log[i].out.data) :
          i \in DOMAIN jobs[s].log }

\* C14: the reading a station's job stores is exactly what the job
\* accumulated in this cycle: one reading, whose observed samples all were
\* returned by calls of this job for this cycle's lookback and whose
\* forecast samples were fetched in this cycle; when no call returned
\* discharge it is all-empty with a null source, whatever was stored before.
C14_LatestSnapshotWins ==
  [][ \A s \in StationIds :
        Settles(s) =>
          LET r == stationData'[s][1]
          IN  /\ Len(stationData'[s]) = 1
              /\ Samples(r) \subseteq Returned(s)
              /\ \A x \in Samples(r) : x[2] = days
              /\ \A k \in DOMAIN r.forecast : r.forecast[k] = << "NWS", cycleNo >>
              /\ Good(s, {"usgs", "usbr"}) = {} =>
                   /\ Samples(r) = {}
                   /\ r.source = null
              /\ \A i \in Good(s, {"usgs", "usbr"}) :
                   r.source = (IF jobs[s].log[i].prov = "usgs" THEN "USGS" ELSE "USBR") ]_vars

\* Second cycle: horlick's stored reading is the first cycle's, with
\* discharge and a forecast, and its job has got nothing from USBR and is at
\* its last call; what it stores next replaces that reading.
C14_Witness ==
  /\ cycleNo = 2
  /\ stationData["horlick"] # <<>>
  /\ stationData["horlick"][1].discharge # <<>>
  /\ stationData["horlick"][1].forecast = << << "NWS", 1 >> >>
  /\ jobs["horlick"].pc = "nws"
  /\ jobs["horlick"].result = <<>>

\* C15: when the weather fetch of a location fails, the location's stored
\* weather reading becomes 'no data': no reading of an earlier cycle is
\* retained in weatherData.
C15_WeatherFailureRecordsNoData ==
  [][ \A l \in WEATHER_LOCATIONS :
        (CallFails(l) /\ Settled(jobs'[l])) => weatherData'[l] = <<>> ]_vars

\* C16: an auto-refresh tick that arrives while a cycle is in flight or
\* while the page is hidden changes nothing, and a tick that starts a cycle
\* does so with no cycle in flight and the page not hidden.
C16_AutoTickSkips ==
  [][ AutoTick =>
        /\ (isRefreshing \/ hidden) => UNCHANGED vars
        /\ (cycleNo' # cycleNo) => (~isRefreshing /\ ~hidden /\ isRefreshing') ]_vars

\* The page is hidden after a completed cycle, no cycle is in flight and
\* further cycles could start: the tick is due and starts nothing.
C16_Witness ==
  /\ hidden
  /\ domLoaded
  /\ ~isRefreshing
  /\ lastRefresh > 0
  /\ CyclesLeft
  /\ ENABLED AutoTick

\* The requests the running job of station s has made to provider p: the
\* calls that have ended and the one it awaits.
Requests(s, p) ==
  Cardinality(CallsTo(s, p)) + (IF InCall(jobs[s]) /\ jobs[s].pc = p THEN 1 ELSE 0)

\* C17: within a cycle a station's job requests each provider at most once
\* and a weather job makes one request; a job that has ended makes a request
\* again only in the step that starts a later cycle.
C17_NoRetries ==
  /\ [](\A s \in StationIds : \A p \in Providers : Requests(s, p) <= 1)
  /\ [][ /\ \A id \in JobIds :
              (Settled(jobs[id]) /\ InCall(jobs'[id])) => cycleNo' = cycleNo + 1
         /\ \A l \in WEATHER_LOCATIONS :
              (InCall(jobs[l]) /\ jobs'[l] # jobs[l]) =>
                \/ Settled(jobs'[l])
                \/ (jobs[l].phase = "headers" /\ jobs'[l].phase = "body"
                      /\ jobs'[l].pc = jobs[l].pc) ]_vars

\* USGS and USBR both failed for umtanum: the job has gone on to the
\* forecast call, having requested each of them once.
C17_Witness ==
  /\ jobs["umtanum"].pc = "nws"
  /\ Len(jobs["umtanum"].log) = 2
  /\ jobs["umtanum"].log[1].prov = "usgs" /\ ~jobs["umtanum"].log[1].out.ok
  /\ jobs["umtanum"].log[2].prov = "usbr" /\ ~jobs["umtanum"].log[2].out.ok

\* C18: a station's job none of whose discharge calls returned a non-empty
\* discharge series still ends, fulfilled, with a stored reading that has
\* empty discharge and a null source; and a cycle in which every station
\* ends so passes its join on the normal path, setting lastRefresh.
C18_NoDataIsValidOutcome ==
  [][ /\ \A s \in StationIds :
           (Settles(s) /\ Good(s, {"usgs", "usbr"}) = {}) =>
             /\ jobs'[s].pc = "fulfilled"
             /\ stationData'[s] # <<>>
             /\ stationData'[s][1].discharge = <<>>
             /\ stationData'[s][1].source = null
      /\ ( /\ refreshPc = "await" /\ refreshPc' = "idle"
           /\ \A s \in StationIds :
                stationData[s] # <<>> /\ stationData[s][1].discharge = <<>> )
           => (lastRefresh' = cycleNo /\ ~isRefreshing') ]_vars

\* horlick's services answered and gave no discharge, the other stations'
\* services failed: every job is fulfilled with an empty reading and a null
\* source, and the cycle has set lastRefresh.
C18_Witness ==
  /\ << "horlick", "usbr" >> \in online
  /\ cycleNo = 1
  /\ lastRefresh = 1
  /\ ~isRefreshing
  /\ \A s \in StationIds :
       /\ jobs[s].pc = "fulfilled"
       /\ stationData[s] # <<>>
       /\ stationData[s][1].discharge = <<>>
       /\ stationData[s][1].source = null

\* C19: in every stored station reading the source is 'USGS', 'USBR' or
\* null; it is non-null exactly when the discharge series is non-empty, and
\* then every discharge sample came from the provider the source names.
C19_SourceNamesProvider ==
  \A s \in StationIds :
    stationData[s] # <<>> =>
      LET r == stationData[s][1] IN
        /\ r.source \in {"USGS", "USBR", null}
        /\ (r.source # null) <=> (r.discharge # <<>>)
        /\ \A k \in DOMAIN r.discharge : r.discharge[k][1] = r.source

\* horlick's primary service gave no discharge and the secondary did: the
\* stored reading carries the secondary's samples and names it.
C19_Witness ==
  /\ stationData["horlick"] # <<>>
  /\ stationData["horlick"][1].source = "USBR"
  /\ stationData["horlick"][1].discharge # <<>>
  /\ stationData["horlick"][1].discharge[1][1] = "USBR"

\* The samples a parser put into what it returned.
ParsedSamples ==
  IF parsed = <<>> THEN {}
  ELSE IF raw.kind \in {"usgs", "usbr"} THEN Samples(parsed[1])
  ELSE { parsed[1][k] : k \in DOMAIN parsed[1] }

\* C20: every sample a provider parser puts into a series has a valid
\* timestamp and a finite value that is not the missing-value sentinel,
\* whatever the raw input.
C20_SamplesFiniteAndTimed ==
  \A x \in ParsedSamples :
    /\ x.time.valid
    /\ x.value.k = "fin"
    /\ x.value # Sentinel

\* C21: the error of a call that ended on a non-success HTTP status or on
\* its timeout's abort names its provider and carries the identifier the
\* call was made for and the status.
C21_ErrorCarriesIdAndStatus ==
  \A id \in JobIds :
    (jobs[id].err # <<>> /\ jobs[id].err[1].name \in {"Error", "AbortError"}) =>
      /\ jobs[id].err[1].provider # null
      /\ jobs[id].err[1].id # null
      /\ jobs[id].err[1].status # null

RECURSIVE PickFrom(_, _, _)
\* The elements of arr at the positions of I from position i on, in order.
PickFrom(arr, I, i) ==
  IF i > Len(arr) THEN <<>>
  ELSE (IF i \in I THEN << arr[i] >> ELSE <<>>) \o PickFrom(arr, I, i + 1)

\* out is made of elements of arr in their original relative order.
IsSubsequence(out, arr) ==
  \E I \in SUBSET DOMAIN arr : out = PickFrom(arr, I, 1)

\* What C22 says of downsample(arr, m) = out.
DownsampleLaw(arr, m, out) ==
  /\ Len(out) <= m
  /\ IsSubsequence(out, arr)
  /\ Len(arr) <= m => out = arr
  /\ Len(arr) > m =>
       LET step == (Len(arr) + m - 1) \div m
       IN  out = PickFrom(arr, { i \in DOMAIN arr : (i - 1) % step = 0 }, 1)

MostRecentBy(vs, t) ==
  { vs[i] : i \in { k \in DOMAIN vs :
      /\ vs[k].time <= t
      /\ \A m \in DOMAIN vs : vs[m].time <= t => vs[m].time <= vs[k].time } }

\* The trend of a change from reference p to latest l by its sign: rising
\* when l is more than 10% of |p| above p, falling when as much below.
SignTrend(l, p) ==
  LET mag == IF p < 0 THEN 0 - p ELSE p
  IN  IF p = 0 THEN "stable"
      ELSE IF 10 * (l - p) > mag THEN "rising"
      ELSE IF 10 * (p - l) > mag THEN "falling"
      ELSE "stable"

\* C23: with at least 2 samples and a reference sample 24h or more older
\* than the latest, getTrend is 'rising' when the latest value is more than
\* 10% above the reference, 'falling' when more than 10% below, by the sign
\* of the change for every reference, negative ones included, and 'stable'
\* within 10% or for a reference of 0; it is 'stable' for fewer than 2
\* samples or without such a reference.
C23_TrendBySign ==
  (raw.kind = "trend" /\ parsed # <<>>) =>
    LET vs == raw.values
        ls == MostRecentBy(vs, 100)
        ps == UNION { MostRecentBy(vs, l.time - 24) : l \in ls }
    IN  IF Len(vs) < 2 \/ ps = {} THEN parsed[1] = "stable"
        ELSE \E l \in ls : \E p \in MostRecentBy(vs, l.time - 24) :
               parsed[1] = SignTrend(l.value, p.value)

\* C27: getTrend's reference is the most recent sample at or before
\* now - 24h, the cutoff being measured back from the clock, not from the
\* latest sample.
C27_ReferenceFromNow ==
  (raw.kind = "trend" /\ parsed # <<>> /\ Len(raw.values) >= 2) =>
    LET vs == raw.values
        ls == MostRecentBy(vs, raw.now)
        ps == MostRecentBy(vs, raw.now - 24)
    IN  IF ps = {} THEN parsed[1] = "stable"
        ELSE \E l \in ls : \E p \in ps :
               parsed[1] = (IF p.value = 0 THEN "stable" ELSE PctTrend(l.value, p.value))

\* C24: the aligned list has one entry per (downsampled) discharge point;
\* the entry is the value of a temperature sample at minimum absolute time
\* difference from the point when that difference is strictly under 4
\* hours, and null otherwise.
C24_NearestWithinFourHours ==
  (raw.kind = "align" /\ parsed # <<>> /\ raw.waterTemp # <<>>) =>
    LET ds == downsample(raw.discharge, 80)
        ts == raw.waterTemp
        aligned == parsed[1][1]
        Gap(i, k) == AbsDiff(ts[k].time, ds[i].time)
    IN  /\ parsed[1] # <<>>
        /\ Len(aligned) = Len(ds)
        /\ \A i \in DOMAIN ds :
             LET near == { k \in DOMAIN ts : \A m \in DOMAIN ts : Gap(i, k) <= Gap(i, m) }
             IN  IF \E k \in near : Gap(i, k) < 4
                 THEN \E k \in near : aligned[i] = << ts[k].value >>
                 ELSE aligned[i] = <<>>

\* Discharge points at hours 0 and 8 and temperature samples at hours 3 and
\* 4: the first point takes the sample 3 hours away, the second, exactly 4
\* hours from its nearest, gets null.
C24_Witness ==
  /\ raw.kind = "align" /\ parsed # <<>>
  /\ raw.discharge = << [time |-> 0, value |-> 100], [time |-> 8, value |-> 100] >>
  /\ raw.waterTemp = << [time |-> 4, value |-> 60], [time |-> 3, value |-> 50] >>
  /\ parsed[1] = << << <<50>>, <<>> >> >>

\* C28: parseWindyResponse's 'current' timestep is the one with the
\* greatest timestamp among those at or before now, whatever the order of
\* the ts array; when there is none it is index 0.
C28_CurrentIsGreatestPast ==
  (raw.kind = "windy" /\ parsed # <<>>) =>
    LET ts == raw.ts
        past == { i \in DOMAIN ts : ts[i] <= raw.now }
    IN  IF past = {} THEN parsed[1] = 0
        ELSE /\ parsed[1] + 1 \in past
             /\ \A i \in past : ts[i] <= ts[parsed[1] + 1]

\* The samples the lines after the header at position h give for the
\* column the header names with suffix: one per row, in order, from the rows
\* with a parsable timestamp and a second column whose cell in that column
\* parses to a number (for wanted = "q": a number >= 0); for "tw" the number
\* is converted from Celsius to Fahrenheit.
RowsGive(lines, h, suffix, wanted) ==
  LET k == HeaderIndex(lines[h], suffix)
      Cell(i) == IF k \in DOMAIN lines[i].cols THEN lines[i].cols[k] ELSE << "?" >>
      Num(i) == ScanDecimal(Cell(i)).v
      Gives(i) ==
        /\ i > h
        /\ k >= 1
        /\ NewDate(lines[i].c0).valid
        /\ Len(lines[i].cols) >= 1
        /\ Num(i).k # "nan"
        /\ wanted = "q" => (Num(i).k = "inf" /\ Num(i).n > 0) \/ (Num(i).k = "fin" /\ Num(i).n >= 0)
      Sample(i) ==
        [ time |-> NewDate(lines[i].c0),
          value |-> IF wanted = "q" \/ Num(i).k # "fin" THEN Num(i)
                    ELSE Fin((Num(i).n * 9) \div 5 + 3200) ]
  IN  PickFrom([i \in DOMAIN lines |-> Sample(i)],
               { i \in DOMAIN lines : Gives(i) }, 1)

\* C25: parseUSBRCSV takes nothing from the rows before the first line
\* starting with 'DateTime' (in any case) nor from rows with an unparsable
\* timestamp; each later row gives a discharge sample only if its discharge
\* column parses to a number >= 0, and a temperature sample, converted to
\* Fahrenheit, only if its temperature column parses to a number; without a
\* header line or with fewer than 2 lines all series are empty.
C25_USBRRows ==
  (raw.kind = "usbr" /\ parsed # <<>>) =>
    LET lines == raw.lines
        heads == { i \in DOMAIN lines : lines[i].c0 \in {"DateTime", "DATETIME", "datetime"} }
        out == parsed[1]
    IN  /\ out.gageHeight = <<>>
        /\ (heads = {} \/ Len(lines) < 2) => out = EmptySeriesSet
        /\ (heads # {} /\ Len(lines) >= 2) =>
             LET h == CHOOSE i \in heads : \A k \in heads : i <= k
             IN  /\ out.discharge = RowsGive(lines, h, << "_", "q" >>, "q")
                 /\ out.waterTemp = RowsGive(lines, h, << "_", "t", "w" >>, "tw")

\* The header 'DateTime,easw_q,easw_tw' and the row
\* '2026-02-18 17:30,326.57,41.0' give one discharge sample 326.57 and one
\* temperature sample 105.8.
C25_Witness ==
  /\ raw.kind = "usbr" /\ parsed # <<>>
  /\ Len(raw.lines) = 2
  /\ raw.lines[1].c0 = "DateTime" /\ Len(raw.lines[1].cols) = 2
  /\ raw.lines[2] = [c0 |-> "2026-02-18 17:30",
                     cols |-> << << "3", "2", "6", ".", "5", "7" >>, << "4", "1", ".", "0" >> >>]
  /\ parsed[1].discharge = << [time |-> [valid |-> TRUE, t |-> 49], value |-> Fin(32657)] >>
  /\ parsed[1].waterTemp = << [time |-> [valid |-> TRUE, t |-> 49], value |-> Fin(10580)] >>

\* The value entries of the time series of json with parameter code c.
EntriesOf(json, c) ==
  UNION { { json.timeSeries[i].values[k] : k \in DOMAIN json.timeSeries[i].values } :
            i \in { m \in DOMAIN json.timeSeries : json.timeSeries[m].code = c } }

\* The samples of series all have a numeric value that is not the
\* sentinel's (conv: the conversion the series applies), and each is the
\* value and time of an entry of code c that is numeric and not the
\* sentinel.
FromEntries(series, json, c, conv) ==
  \A i \in DOMAIN series :
    \E e \in EntriesOf(json, c) :
      LET v == parseFloat(e.value)
      IN  /\ ~isNaN(v)
          /\ v # Sentinel
          /\ series[i].time = NewDate(e.dateTime)
          /\ series[i].value = (IF conv THEN CtoF(v) ELSE v)

\* C26: parseUSGSJSON's three outputs are lists, empty when their code is
\* absent; entries whose raw value is the sentinel -999999 or not numeric
\* are left out; 00010 values are converted from Celsius to Fahrenheit,
\* 00060 and 00065 values passed through; time series of other codes change
\* nothing.
C26_USGSSeries ==
  (raw.kind = "usgs" /\ parsed # <<>>) =>
    LET out == parsed[1]
    IN  /\ EntriesOf(raw, "00060") = {} => out.discharge = <<>>
        /\ EntriesOf(raw, "00010") = {} => out.waterTemp = <<>>
        /\ EntriesOf(raw, "00065") = {} => out.gageHeight = <<>>
        /\ FromEntries(out.discharge, raw, "00060", FALSE)
        /\ FromEntries(out.waterTemp, raw, "00010", TRUE)
        /\ FromEntries(out.gageHeight, raw, "00065", FALSE)

\* C29: whenever no cycle is in flight and a cycle has completed, the level
\* shown is the three-level rule applied to the stored readings ('error' for
\* no station with discharge, 'warn' for some, 'ok' for all); and the
\* once-a-minute age-label update never changes the level.
C29_LevelFollowsThreeLevelRule ==
  /\ []( (~isRefreshing /\ lastRefresh # 0) =>
           statusLevel =
             (IF Loaded(stationData) = 0 THEN "error"
              ELSE IF Loaded(stationData) < Total THEN "warn" ELSE "ok") )
  /\ [][ AgeTick => statusLevel' = statusLevel ]_vars

\* C30: the provider fetches of a cycle all use the lookback captured from
\* state.currentDays when the cycle started; and whenever no cycle is in
\* flight and one has completed, every stored station reading was fetched
\* with the current state.currentDays, whatever range clicks arrived during
\* a cycle.
C30_ReadingsMatchCurrentDays ==
  /\ \A s \in StationIds :
       jobs[s].result # <<>> => \A x \in Samples(jobs[s].result[1]) : x[2] = days
  /\ (~isRefreshing /\ lastRefresh # 0) =>
       \A s \in StationIds :
         stationData[s] # <<>> =>
           \A x \in Samples(stationData[s][1]) : x[2] = currentDays

====
